---------------------------- MODULE Spec2Model ----------------------------
(***************************************************************************)
(* Model of main.py: a FastAPI application with an in-memory item registry *)
(* (items_db) and an upload directory ("uploads").                         *)
(*                                                                         *)
(* Python strings are sequences of symbols; a symbol is one character, or  *)
(* stands for a run of characters that the program never takes apart (a    *)
(* uuid, "search").  JSON / Python values are tagged records so that None, *)
(* strings and floats never compare equal.  A dict is a function from key  *)
(* names to values.                                                        *)
(*                                                                         *)
(* Specifications:                                                         *)
(*   Spec          item requests handled one at a time, each handler as a  *)
(*                 whole, reached through the router                       *)
(*   SpecConc      two item handlers in worker threads, one registry       *)
(*                 operation per step                                      *)
(*   SpecFiles     an upload, one file operation per step, with List and   *)
(*                 Retrieve served at any moment                           *)
(*   SpecFilesSeq  the same, List and Retrieve only between uploads        *)
(***************************************************************************)
EXTENDS Integers, Sequences, FiniteSets, TLC

VARIABLES
    items_db,   \* main.py:20, dict: item id (string) -> dict
    used,       \* the uuid4 values generated so far
    response,   \* the last request handled atomically and its response
    threads,    \* item handlers running in the thread pool, with their locals
    db0,        \* the registry when the concurrent handlers were admitted
    uploads,    \* the "uploads" directory: [exists, files: name -> content]
    upload,     \* the upload coroutine in flight, with its locals
    saved,      \* stored name -> content, for the uploads that returned 200
    posted,     \* item id -> the fields it was created with, until it is
                \* replaced, patched or deleted
    deleted     \* the item ids that a DELETE removed

vars == <<items_db, used, response, threads, db0, uploads, upload, saved,
          posted, deleted>>

---------------------------------------------------------------------------
(* Bounds *)

MaxIds == 2         \* uuid4 values available to a run
MaxNameLen == 2     \* longest uploaded file name, in symbols
MaxFiles == 2       \* most files in one multi-upload

---------------------------------------------------------------------------
(* Python values *)

None == [type |-> "None", s |-> <<>>, n |-> 0]
Str(s) == [type |-> "str", s |-> s, n |-> 0]
Num(n) == [type |-> "float", s |-> <<>>, n |-> n]

Range(f) == {f[x] : x \in DOMAIN f}

EmptyDict == [k \in {} |-> None]

\* {**a, **b}, and the effect of "for k, v in b.items(): a[k] = v"
DictMerge(a, b) ==
    [k \in DOMAIN a \cup DOMAIN b |-> IF k \in DOMAIN b THEN b[k] ELSE a[k]]

\* del d[key]
DictDel(d, key) == [k \in DOMAIN d \ {key} |-> d[k]]

\* str.lower(), symbol by symbol
LowerSym(c) == CASE c = "W" -> "w" [] c = "B" -> "b" [] OTHER -> c

lower(s) == [i \in 1..Len(s) |-> LowerSym(s[i])]

\* a in b, for strings
Contains(a, b) ==
    \E i \in 0..(Len(b) - Len(a)) : SubSeq(b, i + 1, i + Len(a)) = a

\* the uuid4 strings; each is one symbol
UUIDs == {<<"u" \o ToString(i)>> : i \in 1..MaxIds}

uuid4_any(u) == UUIDs

\* uuid.uuid4(): a value that was never generated before
uuid4(u) == UUIDs \ u

---------------------------------------------------------------------------
(* Request inputs *)

\* class Item(BaseModel); model_dump() gives all four fields
ItemBodies ==
    { [name |-> Str(<<"W">>), description |-> None, price |-> Num(10), tax |-> None],
      [name |-> Str(<<"b", "w">>), description |-> Str(<<"d">>), price |-> Num(9),
       tax |-> Num(1)] }

model_dump(item) ==
    [k \in {"name", "description", "price", "tax"} |->
        CASE k = "name" -> item.name
          [] k = "description" -> item.description
          [] k = "price" -> item.price
          [] k = "tax" -> item.tax]

\* {"id": item_id, **item.model_dump()}
WithId(item_id, item) ==
    DictMerge([k \in {"id"} |-> Str(item_id)], model_dump(item))

\* PATCH bodies: item: dict = Body(...), any JSON object
PatchKeys == {"id", "extra"}
PatchVals == {Str(<<>>)}
PatchBodies ==
    UNION {[K -> PatchVals] : K \in SUBSET PatchKeys}

\* the ids a client may put in the path (the ones not generated yet are
\* ids of no item)
PathIds == UUIDs

\* query parameters of /items/search
QueryNames == {None, Str(<<"w">>)}
QueryPrices == {None, Num(10)}

---------------------------------------------------------------------------
(* Responses *)

Reply(db, status, body) == [db |-> db, status |-> status, body |-> body]

\* raise HTTPException(status_code=404, detail=...)
HTTPException(db, status, detail) == Reply(db, status, detail)

\* an exception no handler catches: the framework answers 500
ServerError(db) == Reply(db, 500, "Internal Server Error")

\* list(d.values()): the values with their multiplicities
Values(d) ==
    [r \in Range(d) |-> Cardinality({k \in DOMAIN d : d[k] = r})]

---------------------------------------------------------------------------
(* Item handlers, each taken as a whole: registry in, registry and reply out *)

read_root(db) == Reply(db, 200, "Hello World")

read_items(db) == Reply(db, 200, Values(db))

read_item_pop(db, item_id) ==
    IF item_id \notin DOMAIN db
    THEN HTTPException(db, 404, "Item not found")
    ELSE Reply(DictDel(db, item_id), 200, db[item_id])

read_item(db, item_id) ==
    IF item_id \notin DOMAIN db
    THEN HTTPException(db, 404, "Item not found")
    ELSE Reply(db, 200, db[item_id])

\* The comprehension reads item.name and item.price of the stored values.
\* The stored values are dicts, which have no such attributes: the first
\* operand that is evaluated on a stored item raises AttributeError.
search_items(db, name, min_price) ==
    IF DOMAIN db # {} /\ (name # None \/ min_price # None)
    THEN ServerError(db)
    ELSE Reply(db, 200, Values(db))

create_item(db, item, item_id) ==
    LET stored == WithId(item_id, item)
    IN  Reply(DictMerge(db, [k \in {item_id} |-> stored]), 200, stored)

update_item_merge(db, item_id, item) ==
    IF item_id \notin DOMAIN db
    THEN HTTPException(db, 404, "Item not found")
    ELSE LET updated_item == DictMerge(db[item_id], WithId(item_id, item))
         IN  Reply([db EXCEPT ![item_id] = updated_item], 200, updated_item)

update_item(db, item_id, item) ==
    IF item_id \notin DOMAIN db
    THEN HTTPException(db, 404, "Item not found")
    ELSE LET updated_item == WithId(item_id, item)
         IN  Reply([db EXCEPT ![item_id] = updated_item], 200, updated_item)

patch_item(db, item_id, item) ==
    IF item_id \notin DOMAIN db
    THEN HTTPException(db, 404, "Item not found")
    ELSE LET existing_item == DictMerge(db[item_id], item)
         IN  Reply([db EXCEPT ![item_id] = existing_item], 200, existing_item)

delete_item_keep(db, item_id) ==
    IF item_id \notin DOMAIN db
    THEN HTTPException(db, 404, "Item not found")
    ELSE Reply(db, 200, "Item deleted successfully")

delete_item(db, item_id) ==
    IF item_id \notin DOMAIN db
    THEN HTTPException(db, 404, "Item not found")
    ELSE Reply(DictDel(db, item_id), 200, "Item deleted successfully")

---------------------------------------------------------------------------
(* Routing: the decorators in the order they run, main.py:24-149 *)

Lit(s) == [kind |-> "lit", v |-> <<s>>]
Param(s) == [kind |-> "param", v |-> <<s>>]

Route(m, p, h) == [method |-> m, path |-> p, handler |-> h]

Routes ==
    << Route("GET", <<>>, "read_root"),
       Route("GET", <<Lit("items")>>, "read_items"),
       Route("GET", <<Lit("items"), Param("item_id")>>, "read_item"),
       Route("GET", <<Lit("items"), Lit("search")>>, "search_items"),
       Route("POST", <<Lit("items")>>, "create_item"),
       Route("PUT", <<Lit("items"), Param("item_id")>>, "update_item"),
       Route("PATCH", <<Lit("items"), Param("item_id")>>, "patch_item"),
       Route("DELETE", <<Lit("items"), Param("item_id")>>, "delete_item"),
       Route("POST", <<Lit("upload")>>, "upload_file"),
       Route("GET", <<Lit("download"), Param("filename")>>, "download_file"),
       Route("GET", <<Lit("files")>>, "list_files"),
       Route("POST", <<Lit("upload-multiple")>>, "upload_multiple_files") >>

\* a path parameter matches a non-empty segment without "/"
SegMatches(pat, seg) ==
    IF pat.kind = "param"
    THEN seg # <<>> /\ "/" \notin Range(seg)
    ELSE pat.v = seg

RouteMatches(r, method, path) ==
    /\ r.method = method
    /\ Len(r.path) = Len(path)
    /\ \A i \in 1..Len(path) : SegMatches(r.path[i], path[i])

\* the router tries the routes in registration order; 0 when none matches
FirstMatch(method, path) ==
    LET hits == {i \in 1..Len(Routes) : RouteMatches(Routes[i], method, path)}
    IN  IF hits = {} THEN 0 ELSE CHOOSE i \in hits : \A j \in hits : i <= j

\* the handler a request reaches
Handler(method, path) ==
    IF FirstMatch(method, path) = 0 THEN "not_found"
    ELSE Routes[FirstMatch(method, path)].handler

\* The application as a function of the request.  q: query parameters,
\* body: the request body, u: the value uuid4() returns if it is called.
App(db, method, path, q, body, u) ==
    LET h == Handler(method, path)
    IN  CASE h = "read_root" -> read_root(db)
          [] h = "read_items" -> read_items(db)
          [] h = "read_item" -> read_item(db, path[2])
          [] h = "search_items" -> search_items(db, q.name, q.min_price)
          [] h = "create_item" -> create_item(db, body, u)
          [] h = "update_item" -> update_item(db, path[2], body)
          [] h = "patch_item" -> patch_item(db, path[2], body)
          [] h = "delete_item" -> delete_item(db, path[2])
          [] OTHER -> Reply(db, 404, "Not Found")

---------------------------------------------------------------------------
(* Requests handled one at a time *)

Items == <<"items">>
NoQuery == [name |-> None, min_price |-> None]
NoBody == EmptyDict
NoUuid == <<>>

Request(method, path, q, body) ==
    [method |-> method, path |-> path, q |-> q, body |-> body]

concVars == <<threads, db0>>
fileVars == <<uploads, upload, saved>>

\* One request, from routing to the reply.
Handle(method, path, q, body, u) ==
    LET r == App(items_db, method, path, q, body, u)
        h == Handler(method, path)
        touched == IF h \in {"update_item", "patch_item", "delete_item"}
                   THEN {path[2]} ELSE {}
    IN  /\ items_db' = r.db
        /\ response' = [req |-> Request(method, path, q, body), handler |-> h,
                         status |-> r.status, reply |-> r.body]
        /\ used' = IF h = "create_item" THEN used \cup {u} ELSE used
        /\ posted' =
              IF h = "create_item"
              THEN DictMerge(posted, [k \in {u} |-> body])
              ELSE [k \in DOMAIN posted \ touched |-> posted[k]]
        /\ deleted' = IF h = "delete_item" /\ r.status = 200
                      THEN deleted \cup {path[2]} ELSE deleted
        /\ UNCHANGED <<concVars, fileVars>>

GetRoot == Handle("GET", <<>>, NoQuery, NoBody, NoUuid)

GetItems == Handle("GET", <<Items>>, NoQuery, NoBody, NoUuid)

GetItem == \E id \in PathIds : Handle("GET", <<Items, id>>, NoQuery, NoBody, NoUuid)

GetSearch ==
    \E name \in QueryNames, min_price \in QueryPrices :
        Handle("GET", <<Items, <<"search">>>>,
               [name |-> name, min_price |-> min_price], NoBody, NoUuid)

PostItem ==
    \E item \in ItemBodies, u \in uuid4(used) :
        Handle("POST", <<Items>>, NoQuery, item, u)

PutItem ==
    \E id \in PathIds, item \in ItemBodies :
        Handle("PUT", <<Items, id>>, NoQuery, item, NoUuid)

PatchItem ==
    \E id \in PathIds, item \in PatchBodies :
        Handle("PATCH", <<Items, id>>, NoQuery, item, NoUuid)

DeleteItem ==
    \E id \in PathIds : Handle("DELETE", <<Items, id>>, NoQuery, NoBody, NoUuid)

NoResponse ==
    [req |-> Request("", <<>>, NoQuery, NoBody), handler |-> "", status |-> 0,
     reply |-> ""]

Init ==
    /\ items_db = EmptyDict
    /\ used = {}
    /\ response = NoResponse
    /\ threads = <<>>
    /\ db0 = EmptyDict
    /\ uploads = [exists |-> FALSE, files |-> EmptyDict]
    /\ upload = <<>>
    /\ saved = EmptyDict
    /\ posted = EmptyDict
    /\ deleted = {}

Next ==
    \/ GetRoot
    \/ GetItems
    \/ GetItem
    \/ GetSearch
    \/ PostItem
    \/ PutItem
    \/ PatchItem
    \/ DeleteItem

Spec == Init /\ [][Next]_vars

---------------------------------------------------------------------------
(* Claims about the item registry, requests handled one at a time (Spec) *)

ItemHandlers == {"read_item", "update_item", "patch_item", "delete_item"}
ReadHandlers == {"read_root", "read_items", "read_item", "search_items"}

\* C1: in every reachable state every record of the registry has an "id"
\* field that is a non-empty string equal to the key it is stored under.
C1_IdEqualsKey ==
    \A k \in DOMAIN items_db :
        /\ k # <<>>
        /\ "id" \in DOMAIN items_db[k]
        /\ items_db[k]["id"] = Str(k)

\* the items Search is specified to return
Matching(db, name, min_price) ==
    LET ok(item) ==
            /\ name = None \/ Contains(lower(name.s), lower(item["name"].s))
            /\ min_price = None \/ item["price"].n >= min_price.n
        keys == {k \in DOMAIN db : ok(db[k])}
    IN  [k \in keys |-> db[k]]

\* C2: every GET /items/search is answered 200 with exactly the stored items
\* whose name contains name (case-insensitively) and whose price is at
\* least min_price, each filter applying only when given.
C2_SearchAnswers ==
    (response.req.method = "GET" /\ response.req.path = <<Items, <<"search">>>>)
    => /\ response.status = 200
       /\ response.reply =
              Values(Matching(items_db, response.req.q.name, response.req.q.min_price))

\* C3: a successful Replace leaves under the id exactly {id} plus the four
\* supplied fields (optional fields not supplied are None, keys added by
\* earlier partial updates are gone); a successful PartialUpdate sets every
\* key of its body and keeps every other key of the record as it was.
C3_Step ==
    LET id == response'.req.path[2]
        body == response'.req.body
    IN  /\ (response'.handler = "update_item" /\ response'.status = 200)
            => /\ id \in DOMAIN items_db
               /\ items_db'[id] = WithId(id, body)
               /\ DOMAIN items_db'[id] =
                      {"id", "name", "description", "price", "tax"}
               /\ response'.reply = items_db'[id]
        /\ (response'.handler = "patch_item" /\ response'.status = 200)
            => /\ id \in DOMAIN items_db
               /\ DOMAIN items_db'[id] = DOMAIN items_db[id] \cup DOMAIN body
               /\ \A k \in DOMAIN body : items_db'[id][k] = body[k]
               /\ \A k \in DOMAIN items_db[id] \ DOMAIN body :
                      items_db'[id][k] = items_db[id][k]
               /\ response'.reply = items_db'[id]

C3_ReplaceVsMerge == [][C3_Step]_vars

\* a Replace that reset the description succeeded while another item still
\* carries a key that only a partial update can have added
C3_Witness ==
    /\ response.handler = "update_item"
    /\ response.status = 200
    /\ response.reply["description"] = None
    /\ \E k \in DOMAIN items_db :
           /\ "extra" \in DOMAIN items_db[k]
           /\ items_db[k]["description"] # None

\* C4: Create answers 200 with an id that was no key before and changes no
\* stored item; a Get of an id that was created and not replaced, patched
\* or deleted since answers 200 with the posted fields plus that id.
C4_Step ==
    /\ response'.handler = "create_item"
        => /\ response'.status = 200
           /\ LET u == response'.reply["id"].s
              IN  /\ u \notin DOMAIN items_db
                  /\ u \in DOMAIN items_db'
                  /\ DOMAIN items_db' = DOMAIN items_db \cup {u}
                  /\ \A k \in DOMAIN items_db : items_db'[k] = items_db[k]
                  /\ response'.reply = WithId(u, response'.req.body)
    /\ (response'.handler = "read_item" /\ response'.req.path[2] \in DOMAIN posted)
        => /\ response'.status = 200
           /\ response'.reply =
                  WithId(response'.req.path[2], posted[response'.req.path[2]])

C4_CreateThenGet == [][C4_Step]_vars

\* a Get of an item as posted, after a later Create added a second item
C4_Witness ==
    /\ response.handler = "read_item"
    /\ response.status = 200
    /\ response.req.path[2] \in DOMAIN posted
    /\ Cardinality(DOMAIN items_db) >= 2

\* C5: once a Delete of an id succeeded, every later Get, Replace,
\* PartialUpdate and Delete of that id answers 404, and the id is no key of
\* the registry.
C5_Step ==
    /\ (response'.handler \in ItemHandlers /\ response'.req.path[2] \in deleted)
        => response'.status = 404
    /\ deleted' \cap DOMAIN items_db' = {}

C5_DeletedStaysGone == [][C5_Step]_vars

\* a second Delete of a deleted id answered 404 while other items exist
C5_Witness ==
    /\ response.handler = "delete_item"
    /\ response.status = 404
    /\ response.req.path[2] \in deleted
    /\ DOMAIN items_db # {}

\* C10: a request answered 404 and every read request leave the registry
\* as it was; a successful Replace, PartialUpdate or Delete adds no key
\* and changes no record but the one under its id.
C10_Step ==
    /\ (response'.status = 404 \/ response'.handler \in ReadHandlers)
        => items_db' = items_db
    /\ (response'.handler \in {"update_item", "patch_item", "delete_item"}
            /\ response'.status = 200)
        => /\ DOMAIN items_db' \subseteq DOMAIN items_db
           /\ \A k \in DOMAIN items_db \ {response'.req.path[2]} :
                  /\ k \in DOMAIN items_db'
                  /\ items_db'[k] = items_db[k]

C10_Frame == [][C10_Step]_vars

\* a PartialUpdate of an absent id answered 404 with items in the registry
C10_Witness ==
    /\ response.handler = "patch_item"
    /\ response.status = 404
    /\ DOMAIN response.req.body # {}
    /\ DOMAIN items_db # {}

---------------------------------------------------------------------------
(* Item handlers running concurrently.                                     *)
(*                                                                         *)
(* The item handlers are plain "def" functions: the framework runs each in *)
(* a worker thread, and the interpreter may switch threads between any two *)
(* operations on items_db.  A step below is one such operation.            *)
(*                                                                         *)
(* patch_item keeps a reference to the stored dict (existing_item).  The   *)
(* registry holds dicts by value here, so the reference is a record        *)
(* [attached, d]: while attached, the object is the one bound to item_id   *)
(* in items_db; once another handler rebinds or deletes that key, the      *)
(* object lives on only through the reference, with contents d.            *)
(***************************************************************************)

Threads == {1, 2}

IdleThread ==
    [pc |-> "idle", handler |-> "", item_id |-> <<>>, body |-> EmptyDict,
     u |-> <<>>, existing_item |-> [attached |-> FALSE, d |-> EmptyDict],
     todo |-> {}, status |-> 0, reply |-> ""]

\* the registries the concurrent handlers may start from
StartRegistries ==
    {EmptyDict} \cup
    {[k \in {<<"u1">>} |-> WithId(<<"u1">>, item)] : item \in ItemBodies}

InitConc ==
    /\ items_db \in StartRegistries
    /\ used = DOMAIN items_db
    /\ response = NoResponse
    /\ threads = [t \in Threads |-> IdleThread]
    /\ db0 = items_db
    /\ uploads = [exists |-> FALSE, files |-> EmptyDict]
    /\ upload = <<>>
    /\ saved = EmptyDict
    /\ posted = EmptyDict
    /\ deleted = {}

seqVars == <<response, posted, deleted>>

Finish(th, status, reply) ==
    [th EXCEPT !.pc = "done", !.status = status, !.reply = reply]

\* the dict bound to id stops being reachable from the registry: the
\* references other threads hold to it keep it, with its contents obj
Detach(ths, t, id, obj) ==
    [o \in Threads |->
        IF o # t /\ ths[o].item_id = id /\ ths[o].existing_item.attached
        THEN [ths[o] EXCEPT !.existing_item = [attached |-> FALSE, d |-> obj]]
        ELSE ths[o]]

\* the framework hands a request to a worker thread
Admit(t) ==
    /\ threads[t].pc = "idle"
    /\ \E h \in ItemHandlers \cup {"create_item"}, id \in PathIds :
          \E body \in (IF h \in {"create_item", "update_item"} THEN ItemBodies
                        ELSE IF h = "patch_item" THEN PatchBodies
                        ELSE {NoBody}) :
             threads' = [threads EXCEPT ![t] =
                 [IdleThread EXCEPT
                     !.pc = IF h = "create_item" THEN "store" ELSE "check",
                     !.handler = h,
                     !.item_id = IF h = "create_item" THEN <<>> ELSE id,
                     !.body = body]]
    /\ UNCHANGED <<items_db, used, db0, seqVars, fileVars>>

\* main.py:38, 68, 80, 94: if item_id not in items_db: raise 404
Check(t) ==
    LET th == threads[t]
    IN  /\ th.pc = "check"
        /\ threads' = [threads EXCEPT ![t] =
              IF th.item_id \notin DOMAIN items_db
              THEN Finish(th, 404, "Item not found")
              ELSE [th EXCEPT !.pc =
                       CASE th.handler = "read_item" -> "read"
                         [] th.handler = "update_item" -> "store"
                         [] th.handler = "patch_item" -> "read"
                         [] th.handler = "delete_item" -> "del"]]
        /\ UNCHANGED <<items_db, used, db0, seqVars, fileVars>>

\* main.py:40: return items_db[item_id]; KeyError when the key is gone
ReadItemRead(t) ==
    LET th == threads[t]
    IN  /\ th.pc = "read" /\ th.handler = "read_item"
        /\ threads' = [threads EXCEPT ![t] =
              IF th.item_id \in DOMAIN items_db
              THEN Finish(th, 200, items_db[th.item_id])
              ELSE Finish(th, 500, "Internal Server Error")]
        /\ UNCHANGED <<items_db, used, db0, seqVars, fileVars>>

\* main.py:60-62
CreateStore(t) ==
    LET th == threads[t]
    IN  /\ th.pc = "store" /\ th.handler = "create_item"
        /\ \E u \in uuid4(used) :
              /\ items_db' = create_item(items_db, th.body, u).db
              /\ used' = used \cup {u}
              /\ threads' = [threads EXCEPT ![t] =
                    [Finish(th, 200, WithId(u, th.body)) EXCEPT !.u = u]]
        /\ UNCHANGED <<db0, seqVars, fileVars>>

\* main.py:72-74: items_db[item_id] = updated_item binds the key whether
\* or not it is still present
UpdateStore(t) ==
    LET th == threads[t]
        updated_item == WithId(th.item_id, th.body)
    IN  /\ th.pc = "store" /\ th.handler = "update_item"
        /\ items_db' = DictMerge(items_db, [k \in {th.item_id} |-> updated_item])
        /\ threads' =
              [Detach(threads, t, th.item_id,
                      IF th.item_id \in DOMAIN items_db
                      THEN items_db[th.item_id] ELSE EmptyDict)
                 EXCEPT ![t] = Finish(th, 200, updated_item)]
        /\ UNCHANGED <<used, db0, seqVars, fileVars>>

\* main.py:84: existing_item = items_db[item_id]; KeyError when gone
PatchRead(t) ==
    LET th == threads[t]
    IN  /\ th.pc = "read" /\ th.handler = "patch_item"
        /\ threads' = [threads EXCEPT ![t] =
              IF th.item_id \in DOMAIN items_db
              THEN [th EXCEPT !.pc = "write", !.todo = DOMAIN th.body,
                              !.existing_item =
                                  [attached |-> TRUE, d |-> EmptyDict]]
              ELSE Finish(th, 500, "Internal Server Error")]
        /\ UNCHANGED <<items_db, used, db0, seqVars, fileVars>>

\* main.py:85-86: one turn of the loop, existing_item[key] = value
PatchWrite(t) ==
    LET th == threads[t]
    IN  /\ th.pc = "write" /\ th.todo # {}
        /\ \E key \in th.todo :
              LET kv == [k \in {key} |-> th.body[key]]
              IN  IF th.existing_item.attached
                  THEN /\ items_db' = [items_db EXCEPT ![th.item_id] =
                                          DictMerge(items_db[th.item_id], kv)]
                       /\ threads' = [threads EXCEPT ![t].todo = th.todo \ {key}]
                  ELSE /\ items_db' = items_db
                       /\ threads' = [threads EXCEPT
                             ![t].todo = th.todo \ {key},
                             ![t].existing_item.d =
                                 DictMerge(th.existing_item.d, kv)]
        /\ UNCHANGED <<used, db0, seqVars, fileVars>>

\* main.py:88: return existing_item
PatchReturn(t) ==
    LET th == threads[t]
    IN  /\ th.pc = "write" /\ th.todo = {}
        /\ threads' = [threads EXCEPT ![t] =
              Finish(th, 200, IF th.existing_item.attached
                              THEN items_db[th.item_id]
                              ELSE th.existing_item.d)]
        /\ UNCHANGED <<items_db, used, db0, seqVars, fileVars>>

\* main.py:97-98: del items_db[item_id]; KeyError when gone
DeleteDel(t) ==
    LET th == threads[t]
    IN  /\ th.pc = "del"
        /\ IF th.item_id \in DOMAIN items_db
           THEN /\ items_db' = DictDel(items_db, th.item_id)
                /\ threads' =
                      [Detach(threads, t, th.item_id, items_db[th.item_id])
                         EXCEPT ![t] = Finish(th, 200, "Item deleted successfully")]
           ELSE /\ items_db' = items_db
                /\ threads' = [threads EXCEPT ![t] =
                                  Finish(th, 500, "Internal Server Error")]
        /\ UNCHANGED <<used, db0, seqVars, fileVars>>

NextConc ==
    \E t \in Threads :
        \/ Admit(t)
        \/ Check(t)
        \/ ReadItemRead(t)
        \/ CreateStore(t)
        \/ UpdateStore(t)
        \/ PatchRead(t)
        \/ PatchWrite(t)
        \/ PatchReturn(t)
        \/ DeleteDel(t)

SpecConc == InitConc /\ [][NextConc]_vars

---------------------------------------------------------------------------
(* Claim about concurrent item handlers (SpecConc) *)

\* the handler of thread th run as a whole on registry db
Whole(db, th) ==
    CASE th.handler = "read_item" -> read_item(db, th.item_id)
      [] th.handler = "create_item" -> create_item(db, th.body, th.u)
      [] th.handler = "update_item" -> update_item(db, th.item_id, th.body)
      [] th.handler = "patch_item" -> patch_item(db, th.item_id, th.body)
      [] th.handler = "delete_item" -> delete_item(db, th.item_id)

SameResult(th, r) == th.status = r.status /\ th.reply = r.body

\* the run ended as the two handlers would, first after second
SerialOrder(first, second) ==
    LET r1 == Whole(db0, threads[first])
        r2 == Whole(r1.db, threads[second])
    IN  /\ SameResult(threads[first], r1)
        /\ SameResult(threads[second], r2)
        /\ items_db = r2.db

\* C6: when item handlers run concurrently, every handler ends with 200 or
\* 404, and once all have ended the registry and the replies are those of
\* the handlers run one after the other in some order.
C6_Serializable ==
    /\ \A t \in Threads :
          threads[t].pc = "done" => threads[t].status \in {200, 404}
    /\ (\A t \in Threads : threads[t].pc = "done")
          => (SerialOrder(1, 2) \/ SerialOrder(2, 1))

\* the lost update alone: both handlers answered 200 or 404 and still no
\* serial order explains the outcome
C6_NoLostUpdate ==
    (\A t \in Threads : threads[t].pc = "done" /\ threads[t].status \in {200, 404})
        => (SerialOrder(1, 2) \/ SerialOrder(2, 1))

---------------------------------------------------------------------------
(* The upload directory.                                                   *)
(*                                                                         *)
(* upload_file and upload_multiple_files are coroutines: they give up the  *)
(* event loop at "await file.read()", which is evaluated after open() has  *)
(* created the file and before write() is called.  list_files and          *)
(* download_file are plain functions run in worker threads, so they may    *)
(* run between any two steps of an upload.                                 *)
(***************************************************************************)

FileChars == {"a", ".", "/"}

\* the file names a client may send
FileNames == UNION {[1..n -> FileChars] : n \in 0..MaxNameLen}

\* the payloads a client may send; EmptyFile is a file just opened with "wb"
Contents == {"c1", "c2"}
EmptyFile == ""

\* one UploadFile of a request
UploadFiles == [filename : FileNames, content : Contents]

\* the position of the last "." of a name that has one
LastDot(filename) ==
    CHOOSE i \in 1..Len(filename) :
        /\ filename[i] = "."
        /\ \A j \in (i + 1)..Len(filename) : filename[j] # "."

\* main.py:108, 156: filename.split('.')[-1] if '.' in filename else ''
file_ext(filename) ==
    IF "." \in Range(filename)
    THEN SubSeq(filename, LastDot(filename) + 1, Len(filename))
    ELSE <<>>

\* main.py:109, 157: f"{uuid.uuid4()}.{file_ext}"
unique_filename(u, filename) == u \o <<".">> \o file_ext(filename)

\* open(os.path.join("uploads", name), "wb") can create the file when the
\* name has no further directory part; uploads holds no sub-directory
CanOpen(name) == "/" \notin Range(name)

\* os.path.exists(os.path.join("uploads", filename))
path_exists(dir, filename) ==
    \/ filename \in DOMAIN dir.files
    \/ dir.exists /\ filename \in {<<".">>, <<".", ".">>}

\* main.py:125-135; FileResponse refuses what is not a regular file
download_file(dir, filename) ==
    IF ~path_exists(dir, filename)
    THEN [status |-> 404, body |-> "File not found"]
    ELSE IF filename \in DOMAIN dir.files
    THEN [status |-> 200, body |-> dir.files[filename]]
    ELSE [status |-> 500, body |-> "Internal Server Error"]

\* main.py:140-145
list_files(dir) ==
    IF dir.exists
    THEN [status |-> 200, body |-> DOMAIN dir.files]
    ELSE [status |-> 200, body |-> {}]

\* The upload in flight.  files: List[UploadFile] is read one element at a
\* time, so the record holds the element the loop is at (file) and how many
\* follow it (left); contents are the payloads written so far.
NoUpload ==
    [pc |-> "idle", handler |-> "", file |-> [filename |-> <<>>, content |-> EmptyFile],
     left |-> 0, unique_filename |-> <<>>, uploaded_files |-> <<>>,
     contents |-> <<>>, status |-> 0]

InitFiles ==
    /\ items_db = EmptyDict
    /\ used = {}
    /\ response = NoResponse
    /\ threads = <<>>
    /\ db0 = EmptyDict
    /\ uploads = [exists |-> FALSE, files |-> EmptyDict]
    /\ upload = NoUpload
    /\ saved = EmptyDict
    /\ posted = EmptyDict
    /\ deleted = {}

itemVars == <<items_db, threads, db0, posted, deleted>>

\* main.py:103-105 and 150-153: the request arrives, os.makedirs runs
StartUpload(handler, f, left) ==
    /\ upload.pc \in {"idle", "done"}
    /\ uuid4(used) # {}      \* the run ends when MaxIds names are used up
    /\ upload' = [NoUpload EXCEPT !.pc = "open", !.handler = handler,
                                  !.file = f, !.left = left]
    /\ uploads' = [uploads EXCEPT !.exists = TRUE]
    /\ UNCHANGED <<used, response, saved, itemVars>>

UploadFile == \E f \in UploadFiles : StartUpload("upload_file", f, 0)

UploadMultiple ==
    \E f \in UploadFiles, left \in 0..(MaxFiles - 1) :
        StartUpload("upload_multiple_files", f, left)

\* main.py:108-113, 156-161: the name is made and the file opened, which
\* creates it empty; an exception of open() ends the request with 500
Open ==
    /\ upload.pc = "open"
    /\ \E u \in uuid4(used) :
          LET name == unique_filename(u, upload.file.filename)
          IN  /\ used' = used \cup {u}
              /\ IF CanOpen(name)
                 THEN /\ uploads' = [uploads EXCEPT !.files =
                            DictMerge(@, [k \in {name} |-> EmptyFile])]
                      /\ upload' = [upload EXCEPT !.pc = "write",
                                                  !.unique_filename = name]
                 ELSE /\ uploads' = uploads
                      /\ upload' = [upload EXCEPT !.pc = "done", !.status = 500,
                                                  !.unique_filename = name]
    /\ UNCHANGED <<response, saved, itemVars>>

\* main.py:114-120, 162-169: the payload is written and the file closed;
\* after the last file the request returns the names, otherwise the loop
\* goes on to the next file
Write ==
    LET entry == [filename |-> upload.unique_filename,
                  original_filename |-> upload.file.filename]
        names == Append(upload.uploaded_files, entry)
        contents == Append(upload.contents, upload.file.content)
    IN  /\ upload.pc = "write"
        /\ uploads' = [uploads EXCEPT
              !.files[upload.unique_filename] = upload.file.content]
        /\ IF upload.left = 0
           THEN /\ upload' = [upload EXCEPT !.uploaded_files = names,
                                            !.contents = contents,
                                            !.pc = "done", !.status = 200]
                /\ saved' = DictMerge(saved,
                      [n \in {names[j].filename : j \in 1..Len(names)} |->
                          contents[CHOOSE j \in 1..Len(names) :
                                      names[j].filename = n]])
           ELSE /\ \E f \in UploadFiles :
                     upload' = [upload EXCEPT !.uploaded_files = names,
                                              !.contents = contents,
                                              !.pc = "open", !.file = f,
                                              !.left = upload.left - 1]
                /\ saved' = saved
        /\ UNCHANGED <<used, response, itemVars>>

\* the names a client may ask to download
DownloadNames ==
    {unique_filename(u, f) : u \in UUIDs, f \in FileNames}
        \cup {<<".">>, <<".", ".">>}

\* GET /files
ListFiles ==
    LET r == list_files(uploads)
    IN  /\ response' = [req |-> Request("GET", <<<<"files">>>>, NoQuery, NoBody),
                         handler |-> Handler("GET", <<<<"files">>>>),
                         status |-> r.status, reply |-> r.body]
        /\ UNCHANGED <<used, uploads, upload, saved, itemVars>>

\* GET /download/{filename}
Download ==
    \E filename \in DownloadNames :
        LET path == <<<<"download">>, filename>>
            h == Handler("GET", path)
            r == IF h = "download_file" THEN download_file(uploads, filename)
                 ELSE [status |-> 404, body |-> "Not Found"]
        IN  /\ response' = [req |-> Request("GET", path, NoQuery, NoBody),
                             handler |-> h, status |-> r.status, reply |-> r.body]
            /\ UNCHANGED <<used, uploads, upload, saved, itemVars>>

NextFiles ==
    \/ UploadFile
    \/ UploadMultiple
    \/ Open
    \/ Write
    \/ ListFiles
    \/ Download

SpecFiles == InitFiles /\ [][NextFiles]_vars

\* The same handlers with requests handled one at a time: List and Retrieve
\* are served only while no upload is in flight.
NoUploadInFlight == upload.pc \in {"idle", "done"}

NextFilesSeq ==
    \/ UploadFile
    \/ UploadMultiple
    \/ Open
    \/ Write
    \/ NoUploadInFlight /\ ListFiles
    \/ NoUploadInFlight /\ Download

SpecFilesSeq == InitFiles /\ [][NextFilesSeq]_vars

---------------------------------------------------------------------------
(* Claims about the upload directory (C7: SpecFiles; C8, C9: SpecFilesSeq) *)

\* C7: a stored name that List returns or Retrieve serves has the full
\* uploaded content: no request sees a file between its creation by open()
\* and the write of its content.
C7_UploadAtomic ==
    /\ (response.handler = "download_file" /\ response.status = 200)
        => response.reply # EmptyFile
    /\ response.handler = "list_files"
        => \A n \in response.reply : uploads.files[n] # EmptyFile

\* ext is what follows the last "." of filename, or empty without a "."
IsExtOf(ext, filename) ==
    IF \E i \in 1..Len(filename) : filename[i] = "."
    THEN \E i \in 1..Len(filename) :
            /\ filename[i] = "."
            /\ ext = SubSeq(filename, i + 1, Len(filename))
            /\ \A j \in 1..Len(ext) : ext[j] # "."
    ELSE ext = <<>>

\* C8: every Save returns 200 with, for each file, a stored name
\* <token>.<ext> of a generated token and the original extension, whose
\* base is not the original base name, and the file holds the uploaded
\* content; a Retrieve of a returned stored name answers 200 with that
\* content; no later Save changes it.
C8_SaveRoundTrip ==
    /\ upload.pc = "done"
        => /\ upload.status = 200
           /\ \A j \in 1..Len(upload.uploaded_files) :
                 LET e == upload.uploaded_files[j]
                 IN  /\ \E u \in used, ext \in FileNames :
                           /\ e.filename = u \o <<".">> \o ext
                           /\ IsExtOf(ext, e.original_filename)
                           /\ u \o <<".">> \o ext # e.original_filename
                     /\ e.filename \in DOMAIN uploads.files
    /\ \A n \in DOMAIN saved :
          n \in DOMAIN uploads.files /\ uploads.files[n] = saved[n]
    /\ (response.handler = "download_file" /\ response.req.path[2] \in DOMAIN saved
           /\ response.status # 404)
        => response.status = 200 /\ response.reply = saved[response.req.path[2]]

\* C9: List answers 200 with exactly the stored names the completed Saves
\* returned (none before the first upload), and Retrieve answers 404
\* exactly for the names outside that set.
C9_Step ==
    response' # response
    => /\ response'.handler = "list_files"
           => response'.status = 200 /\ response'.reply = DOMAIN saved'
       /\ response'.req.path # <<>> /\ response'.req.path[1] = <<"download">>
           => (response'.status = 404 <=> response'.req.path[2] \notin DOMAIN saved')

C9_ListExact == [][C9_Step]_vars

\* the part of C9 that does not depend on when the reply was made: a name
\* that no Save has returned is never served
C9_UnknownIs404 ==
    (response.req.path # <<>> /\ response.req.path[1] = <<"download">>
        /\ response.req.path[2] \notin DOMAIN saved)
    => response.status = 404

===========================================================================
